---- MODULE Spec2Model ----
(***************************************************************************)
(* ClyCites ml-predict: the synthetic data generator (data/data.py) and    *)
(* the trainer (models/model_training.py), connected only through the      *)
(* file dummy_agricultural_data.csv.                                       *)
(*                                                                         *)
(* Floating point cells are kept in tenths of a unit (15.0 is 150, 8.5 is  *)
(* 85).  A CSV file is a sequence of lines, a line a sequence of cells;    *)
(* a numeric cell stands for the number its text denotes.                  *)
(***************************************************************************)
EXTENDS Integers, Sequences, FiniteSets, TLC

\* ------------------------------------------------------------------ bounds
\* Largest sample count passed to generate_dummy_data (the script's default
\* of 1000 is out of reach of an explicit-state check).
MaxSamples == 3
\* Number of states of the stand-in pseudorandom generator.
RngMod == 16
\* Largest number of data rows of a file given to the trainer.
MaxRows == 6

\* ------------------------------------------------------- program constants
SEED == 42
TempLow == 150
TempHigh == 350
PrecipLow == 0
PrecipHigh == 1000
PhLow == 40
PhHigh == 85
ExpenseLow == 10000
ExpenseHigh == 50000
PriceLow == 50000
PriceHigh == 100000
\* test_size=0.2 is TestSizeNum / TestSizeDen
TestSizeNum == 1
TestSizeDen == 5

ClimateZoneList == <<"Tropical", "Temperate", "Arctic">>
ProductList == <<"Wheat", "Corn", "Rice", "Soybeans", "Potatoes">>

ColTemperature == "Temperature (Celsius)"
ColPrecipitation == "Precipitation (mm)"
ColSoilPh == "Soil pH"
ColClimateZone == "Climate Zone"
ColInputExpenses == "Input Expenses (Currency)"
ColOutputPrices == "Output Prices (Currency)"
ColProduct == "Recommended Product"

\* Keys of the dict `data`, in insertion order: the DataFrame's columns.
DataColumns ==
    <<ColTemperature, ColPrecipitation, ColSoilPh, ColClimateZone,
      ColInputExpenses, ColOutputPrices, ColProduct>>

Range(s) == {s[i] : i \in DOMAIN s}

VARIABLES
    \* ---- generator (data.py)
    gpc,              \* position of the generator process
    bitgen,           \* the generator algorithm: fixed for a behaviour
    rng,              \* state of numpy's global RandomState
    num_samples,      \* argument of the call in progress
    temperature, precipitation, soil_ph, climate_zones,
    input_expenses, output_prices, products,
    dummy_frame,      \* data.py's dummy_data: the DataFrame returned
    csv,              \* dummy_agricultural_data.csv
    outputs,          \* <<num_samples, DataFrame>> of every earlier call
    \* ---- trainer (model_training.py)
    tpc,              \* position of the trainer run
    dummy_data,       \* the trainer's DataFrame
    train_idx, test_idx,   \* row positions of X_train/y_train, X_test/y_test
    clf,              \* the classifier
    y_pred,
    accuracy,
    report,
    stdout,           \* what was printed, in order
    stderr,           \* the uncaught exception, if any
    model_file,       \* agricultural_product_recommendation_model.joblib
    steps             \* the statements this run completed, in order

gvars == <<gpc, bitgen, rng, num_samples, temperature, precipitation, soil_ph,
           climate_zones, input_expenses, output_prices, products,
           dummy_frame, csv, outputs>>
tvars == <<tpc, dummy_data, train_idx, test_idx, clf, y_pred, accuracy,
           report, stdout, stderr, model_file, steps>>
vars == <<gvars, tvars>>

\* No DataFrame bound yet, and a path at which no file exists.
NoFrame == [columns |-> <<>>, rows |-> <<>>]
NoFile == [exists |-> FALSE, lines |-> <<>>]
File(lines) == [exists |-> TRUE, lines |-> lines]

\* =================================================================== numpy
\* The global generator is a deterministic automaton; which one is the
\* library's business, so a behaviour fixes one of a family.
BitGens == [mult : {5, 13}, incr : {3, 7}]

RngStates == 0 .. (RngMod - 1)

\* np.random.seed(s): the state becomes a function of s alone.
SeedState(s) == s % RngMod

NextState(g, s) == (g.mult * s + g.incr) % RngMod

RECURSIVE Advance(_, _, _)
Advance(g, s, n) == IF n <= 0 THEN s ELSE Advance(g, NextState(g, s), n - 1)

\* The k-th raw output drawn from state s, a fraction Raw / RngMod of [0,1).
Raw(g, s, k) == Advance(g, s, k)

\* Faulty variant: the span is taken to be high instead of high - low.
UniformBadScale(low, high, r) == low + (high * r) \div RngMod
\* low + (high - low) * random_sample()
Uniform(low, high, r) == low + ((high - low) * r) \div RngMod

\* a[randint(0, len(a))]
Choice(a, r) == a[((Len(a) * r) \div RngMod) + 1]

UniformArray(g, s, low, high, n) ==
    [k \in 1 .. n |-> Uniform(low, high, Raw(g, s, k))]

ChoiceArray(g, s, a, n) == [k \in 1 .. n |-> Choice(a, Raw(g, s, k))]

\* ================================================================== pandas
\* Faulty variant: the last sample is dropped.
DataFrameShort(cols, arrays, n) ==
    [columns |-> cols,
     rows |-> [i \in 1 .. (n - 1) |->
                 [c \in Range(cols) |-> arrays[c][i]]]]
\* pd.DataFrame(dict of equal-length arrays)
DataFrame(cols, arrays, n) ==
    [columns |-> cols,
     rows |-> [i \in 1 .. n |-> [c \in Range(cols) |-> arrays[c][i]]]]

\* DataFrame.to_csv(path, index=False): the header, then a line per row
ToCsv(df) ==
    <<df.columns>> \o
    [i \in 1 .. Len(df.rows) |->
        [j \in 1 .. Len(df.columns) |-> df.rows[i][df.columns[j]]]]

\* =============================================================== generator
SampleCounts == (-1) .. MaxSamples

GenLocals == <<temperature, precipitation, soil_ph, climate_zones,
               input_expenses, output_prices, products>>

\* The trainer is not running.
TrainIdle ==
    /\ tpc = "none"
    /\ dummy_data = NoFrame
    /\ train_idx = {} /\ test_idx = {}
    /\ clf = [classes |-> {}, fitted_on |-> {}, fitted |-> FALSE]
    /\ y_pred = <<>>
    /\ accuracy = [correct |-> 0, total |-> 0]
    /\ report = <<>>
    /\ stdout = <<>>
    /\ stderr = ""
    /\ model_file = [classes |-> {}, fitted_on |-> {}, fitted |-> FALSE]
    /\ steps = <<>>

GenInit ==
    /\ gpc = "idle"
    /\ bitgen \in BitGens
    /\ rng \in RngStates
    /\ num_samples = 0
    /\ temperature = <<>> /\ precipitation = <<>> /\ soil_ph = <<>>
    /\ climate_zones = <<>> /\ input_expenses = <<>>
    /\ output_prices = <<>> /\ products = <<>>
    /\ dummy_frame = NoFrame
    /\ csv = NoFile
    /\ outputs = {}
    /\ TrainIdle

\* generate_dummy_data(n) is entered
Call(n) ==
    /\ gpc \in {"idle", "returned"}
    /\ gpc' = "seed"
    /\ num_samples' = n
    /\ temperature' = <<>> /\ precipitation' = <<>> /\ soil_ph' = <<>>
    /\ climate_zones' = <<>> /\ input_expenses' = <<>>
    /\ output_prices' = <<>> /\ products' = <<>>
    /\ outputs' = IF gpc = "returned"
                  THEN outputs \cup {<<num_samples, dummy_frame>>}
                  ELSE outputs
    /\ UNCHANGED <<bitgen, rng, dummy_frame, csv>>
    /\ UNCHANGED tvars

\* Faulty variant: the call does not reseed the global generator.
NoSeed ==
    /\ gpc = "seed"
    /\ gpc' = "temperature"
    /\ UNCHANGED <<bitgen, rng, num_samples, GenLocals, dummy_frame, csv, outputs>>
    /\ UNCHANGED tvars
\* np.random.seed(42)
Seed ==
    /\ gpc = "seed"
    /\ rng' = SeedState(SEED)
    /\ gpc' = "temperature"
    /\ UNCHANGED <<bitgen, num_samples, GenLocals, dummy_frame, csv, outputs>>
    /\ UNCHANGED tvars

\* A negative size makes the first draw raise ValueError, which nothing
\* catches: the process ends.
DrawTemperature ==
    /\ gpc = "temperature"
    /\ IF num_samples < 0
       THEN /\ gpc' = "raised"
            /\ UNCHANGED <<rng, temperature>>
       ELSE /\ temperature' =
                 UniformArray(bitgen, rng, TempLow, TempHigh, num_samples)
            /\ rng' = Advance(bitgen, rng, num_samples)
            /\ gpc' = "precipitation"
    /\ UNCHANGED <<bitgen, num_samples, precipitation, soil_ph, climate_zones,
                   input_expenses, output_prices, products, dummy_frame, csv,
                   outputs>>
    /\ UNCHANGED tvars

DrawPrecipitation ==
    /\ gpc = "precipitation"
    /\ precipitation' =
          UniformArray(bitgen, rng, PrecipLow, PrecipHigh, num_samples)
    /\ rng' = Advance(bitgen, rng, num_samples)
    /\ gpc' = "soil_ph"
    /\ UNCHANGED <<bitgen, num_samples, temperature, soil_ph, climate_zones,
                   input_expenses, output_prices, products, dummy_frame, csv,
                   outputs>>
    /\ UNCHANGED tvars

DrawSoilPh ==
    /\ gpc = "soil_ph"
    /\ soil_ph' = UniformArray(bitgen, rng, PhLow, PhHigh, num_samples)
    /\ rng' = Advance(bitgen, rng, num_samples)
    /\ gpc' = "climate_zones"
    /\ UNCHANGED <<bitgen, num_samples, temperature, precipitation,
                   climate_zones, input_expenses, output_prices, products,
                   dummy_frame, csv, outputs>>
    /\ UNCHANGED tvars

DrawClimateZones ==
    /\ gpc = "climate_zones"
    /\ climate_zones' = ChoiceArray(bitgen, rng, ClimateZoneList, num_samples)
    /\ rng' = Advance(bitgen, rng, num_samples)
    /\ gpc' = "input_expenses"
    /\ UNCHANGED <<bitgen, num_samples, temperature, precipitation, soil_ph,
                   input_expenses, output_prices, products, dummy_frame, csv,
                   outputs>>
    /\ UNCHANGED tvars

DrawInputExpenses ==
    /\ gpc = "input_expenses"
    /\ input_expenses' =
          UniformArray(bitgen, rng, ExpenseLow, ExpenseHigh, num_samples)
    /\ rng' = Advance(bitgen, rng, num_samples)
    /\ gpc' = "output_prices"
    /\ UNCHANGED <<bitgen, num_samples, temperature, precipitation, soil_ph,
                   climate_zones, output_prices, products, dummy_frame, csv,
                   outputs>>
    /\ UNCHANGED tvars

DrawOutputPrices ==
    /\ gpc = "output_prices"
    /\ output_prices' =
          UniformArray(bitgen, rng, PriceLow, PriceHigh, num_samples)
    /\ rng' = Advance(bitgen, rng, num_samples)
    /\ gpc' = "products"
    /\ UNCHANGED <<bitgen, num_samples, temperature, precipitation, soil_ph,
                   climate_zones, input_expenses, products, dummy_frame, csv,
                   outputs>>
    /\ UNCHANGED tvars

DrawProducts ==
    /\ gpc = "products"
    /\ products' = ChoiceArray(bitgen, rng, ProductList, num_samples)
    /\ rng' = Advance(bitgen, rng, num_samples)
    /\ gpc' = "frame"
    /\ UNCHANGED <<bitgen, num_samples, temperature, precipitation, soil_ph,
                   climate_zones, input_expenses, output_prices, dummy_frame,
                   csv, outputs>>
    /\ UNCHANGED tvars

\* data = {...}; return pd.DataFrame(data); dummy_data = generate_dummy_data(..)
Return ==
    /\ gpc = "frame"
    /\ LET data == [c \in Range(DataColumns) |->
                      CASE c = ColTemperature -> temperature
                        [] c = ColPrecipitation -> precipitation
                        [] c = ColSoilPh -> soil_ph
                        [] c = ColClimateZone -> climate_zones
                        [] c = ColInputExpenses -> input_expenses
                        [] c = ColOutputPrices -> output_prices
                        [] c = ColProduct -> products]
           df == DataFrame(DataColumns, data, num_samples)
       IN dummy_frame' = df
    /\ gpc' = "returned"
    /\ UNCHANGED <<bitgen, rng, num_samples, GenLocals, csv, outputs>>
    /\ UNCHANGED tvars

\* dummy_data.to_csv('dummy_agricultural_data.csv', index=False); the script
\* ends.
WriteCsv ==
    /\ gpc = "returned"
    /\ csv' = File(ToCsv(dummy_frame))
    /\ gpc' = "written"
    /\ outputs' = outputs \cup {<<num_samples, dummy_frame>>}
    /\ UNCHANGED <<bitgen, rng, num_samples, GenLocals, dummy_frame>>
    /\ UNCHANGED tvars

\* The script is run again: a new process, whose global generator starts
\* in a state the script does not control; the file stays.
RunAgain ==
    /\ gpc \in {"written", "raised"}
    /\ gpc' = "idle"
    /\ rng' \in RngStates
    /\ dummy_frame' = NoFrame
    /\ UNCHANGED <<bitgen, num_samples, GenLocals, csv, outputs>>
    /\ UNCHANGED tvars

\* ================================================================= trainer
\* pd.read_csv(path) of a file that exists and has a header line
ReadCsv(lines) ==
    [columns |-> lines[1],
     rows |-> [i \in 1 .. (Len(lines) - 1) |->
                 [c \in Range(lines[1]) |->
                    lines[i + 1][CHOOSE j \in DOMAIN lines[1] : lines[1][j] = c]]]]

\* Python's sorted() of the climate zone names
SortedZones == <<"Arctic", "Temperate", "Tropical">>

DummyName(col, level) == col \o "_" \o level

\* The categories get_dummies sees: the distinct values of the column, sorted.
Levels(df, col) ==
    SelectSeq(SortedZones, LAMBDA z : \E i \in DOMAIN df.rows : df.rows[i][col] = z)

\* pd.get_dummies(df, columns=[col]): col is dropped and one indicator column
\* per category is appended.
GetDummies(df, col) ==
    LET levels == Levels(df, col)
        kept == SelectSeq(df.columns, LAMBDA c : c # col)
        added == [k \in DOMAIN levels |-> DummyName(col, levels[k])]
    IN [columns |-> kept \o added,
        rows |-> [i \in DOMAIN df.rows |->
                    [c \in Range(kept) \cup Range(added) |->
                       IF c \in Range(kept) THEN df.rows[i][c]
                       ELSE IF \E k \in DOMAIN levels :
                                 /\ c = DummyName(col, levels[k])
                                 /\ df.rows[i][col] = levels[k]
                            THEN 1 ELSE 0]]]

features ==
    <<ColTemperature, ColPrecipitation, ColSoilPh, ColInputExpenses,
      ColOutputPrices, "Climate Zone_Arctic", "Climate Zone_Temperate",
      "Climate Zone_Tropical">>
target == ColProduct

\* Faulty variant: test_size left at the library's default of 0.25.
NTestDefault(n) == (n + 3) \div 4
\* sklearn: n_test = ceil(test_size * n_samples), n_train = n_samples - n_test
NTest(n) == (TestSizeNum * n + TestSizeDen - 1) \div TestSizeDen
NTrain(n) == n - NTest(n)

\* Faulty variant: the classifier is given every row.
TrainRowsAll(n, test) == 1 .. n
\* The rows train_test_split hands to the training side, given the test side.
TrainRows(n, test) == (1 .. n) \ test

y_train == [i \in train_idx |-> dummy_data.rows[i][target]]
y_test == [i \in test_idx |-> dummy_data.rows[i][target]]

Labels(y) == {y[i] : i \in DOMAIN y}

\* Variant: the labels of y_true alone.
ReportLabelsTrueOnly(yt, yp) == Labels(yt)
\* classification_report(y_true, y_pred): labels default to
\* unique_labels(y_true, y_pred); one entry per label.
ReportLabels(yt, yp) == Labels(yt) \cup Labels(yp)

\* Python's sorted() of the product names
SortedProducts == <<"Corn", "Potatoes", "Rice", "Soybeans", "Wheat">>

\* The per-class lines of the report, in label order.
ClassificationReport(yt, yp) ==
    LET labels == SelectSeq(SortedProducts,
                            LAMBDA l : l \in ReportLabels(yt, yp))
    IN [k \in DOMAIN labels |->
          [label |-> labels[k],
           support |-> Cardinality({i \in DOMAIN yt : yt[i] = labels[k]}),
           predicted |-> Cardinality({i \in DOMAIN yp : yp[i] = labels[k]}),
           correct |-> Cardinality({i \in DOMAIN yt :
                                      yt[i] = labels[k] /\ yp[i] = labels[k]})]]

AccuracyScore(yt, yp) ==
    [correct |-> Cardinality({i \in DOMAIN yt : yt[i] = yp[i]}),
     total |-> Cardinality(DOMAIN yt)]

\* Rows the trainer's input files are built from: cells inside the ranges of
\* the data model.
TrainerRow(t, z, p) ==
    [c \in Range(DataColumns) |->
        CASE c = ColTemperature -> t
          [] c = ColPrecipitation -> PrecipLow
          [] c = ColSoilPh -> PhLow
          [] c = ColClimateZone -> z
          [] c = ColInputExpenses -> ExpenseLow
          [] c = ColOutputPrices -> PriceLow
          [] c = ColProduct -> p]

TrainerRows ==
    {TrainerRow(TempLow, "Arctic", "Wheat"),
     TrainerRow(TempLow + 1, "Temperate", "Corn"),
     TrainerRow(TempHigh, "Tropical", "Rice")}

\* No file, an empty file, or what to_csv writes for a table of 0..MaxRows rows.
TrainerFiles ==
    {NoFile, File(<<>>)} \cup
    {File(ToCsv([columns |-> DataColumns, rows |-> r])) :
        r \in UNION {[1 .. k -> TrainerRows] : k \in 0 .. MaxRows}}

NoClf == [classes |-> {}, fitted_on |-> {}, fitted |-> FALSE]

TrainInit ==
    /\ gpc = "none"
    /\ bitgen = [mult |-> 1, incr |-> 1]
    /\ rng = 0
    /\ num_samples = 0
    /\ temperature = <<>> /\ precipitation = <<>> /\ soil_ph = <<>>
    /\ climate_zones = <<>> /\ input_expenses = <<>>
    /\ output_prices = <<>> /\ products = <<>>
    /\ dummy_frame = NoFrame
    /\ outputs = {}
    /\ csv \in TrainerFiles
    /\ tpc = "read"
    /\ dummy_data = NoFrame
    /\ train_idx = {} /\ test_idx = {}
    /\ clf = NoClf
    /\ y_pred = <<>>
    /\ accuracy = [correct |-> 0, total |-> 0]
    /\ report = <<>>
    /\ stdout = <<>>
    /\ stderr = ""
    /\ model_file = NoClf
    /\ steps = <<>>

\* Faulty variant: the exception is swallowed and nothing is printed.
RaiseSilently(e) == tpc' = "failed" /\ stderr' = ""
\* An exception nothing catches: the interpreter prints it and the run ends.
Raise(e) == tpc' = "failed" /\ stderr' = e

\* dummy_data = pd.read_csv('dummy_agricultural_data.csv')
Read ==
    /\ tpc = "read"
    /\ IF ~csv.exists
       THEN Raise("FileNotFoundError") /\ UNCHANGED <<dummy_data, steps>>
       ELSE IF Len(csv.lines) = 0
       THEN Raise("EmptyDataError") /\ UNCHANGED <<dummy_data, steps>>
       ELSE /\ dummy_data' = ReadCsv(csv.lines)
            /\ tpc' = "encode"
            /\ steps' = Append(steps, "read")
            /\ UNCHANGED stderr
    /\ UNCHANGED <<gvars, train_idx, test_idx, clf, y_pred, accuracy, report,
                   stdout, model_file>>

\* dummy_data = pd.get_dummies(dummy_data, columns=['Climate Zone'])
Encode ==
    /\ tpc = "encode"
    /\ dummy_data' = GetDummies(dummy_data, ColClimateZone)
    /\ tpc' = "split"
    /\ steps' = Append(steps, "encode")
    /\ UNCHANGED <<gvars, train_idx, test_idx, clf, y_pred, accuracy, report,
                   stdout, stderr, model_file>>

\* train_test_split(dummy_data[features], dummy_data[target], test_size=0.2,
\* random_state=42): the column selection raises KeyError for an absent
\* column; an empty training side raises ValueError; the shuffle decides
\* which rows are held out.
Split ==
    /\ tpc = "split"
    /\ LET n == Len(dummy_data.rows) IN
       IF ~(Range(features) \subseteq Range(dummy_data.columns))
       THEN Raise("KeyError") /\ UNCHANGED <<train_idx, test_idx, steps>>
       ELSE IF NTrain(n) = 0
       THEN Raise("ValueError") /\ UNCHANGED <<train_idx, test_idx, steps>>
       ELSE /\ \E t \in SUBSET (1 .. n) :
                 /\ Cardinality(t) = NTest(n)
                 /\ test_idx' = t
                 /\ train_idx' = TrainRows(n, t)
            /\ tpc' = "fit"
            /\ steps' = Append(steps, "split")
            /\ UNCHANGED stderr
    /\ UNCHANGED <<gvars, dummy_data, clf, y_pred, accuracy, report, stdout,
                   model_file>>

\* clf = RandomForestClassifier(...); clf.fit(X_train, y_train)
Fit ==
    /\ tpc = "fit"
    /\ clf' = [classes |-> Labels(y_train), fitted_on |-> train_idx,
               fitted |-> TRUE]
    /\ tpc' = "predict"
    /\ steps' = Append(steps, "fit")
    /\ UNCHANGED <<gvars, dummy_data, train_idx, test_idx, y_pred, accuracy,
                   report, stdout, stderr, model_file>>

\* y_pred = clf.predict(X_test): for each test row one of the classes seen
\* in fitting.
Predict ==
    /\ tpc = "predict"
    /\ y_pred' \in [test_idx -> clf.classes]
    /\ tpc' = "accuracy"
    /\ steps' = Append(steps, "predict")
    /\ UNCHANGED <<gvars, dummy_data, train_idx, test_idx, clf, accuracy,
                   report, stdout, stderr, model_file>>

\* accuracy = accuracy_score(y_test, y_pred); print("Accuracy:", accuracy)
Accuracy ==
    /\ tpc = "accuracy"
    /\ accuracy' = AccuracyScore(y_test, y_pred)
    /\ stdout' = Append(stdout, "Accuracy:")
    /\ tpc' = "report"
    /\ steps' = Append(steps, "accuracy")
    /\ UNCHANGED <<gvars, dummy_data, train_idx, test_idx, clf, y_pred,
                   report, stderr, model_file>>

\* print("\nClassification Report:"); print(classification_report(...))
Report ==
    /\ tpc = "report"
    /\ report' = ClassificationReport(y_test, y_pred)
    /\ stdout' = stdout \o <<"Classification Report:", "report">>
    /\ tpc' = "dump"
    /\ steps' = Append(steps, "report")
    /\ UNCHANGED <<gvars, dummy_data, train_idx, test_idx, clf, y_pred,
                   accuracy, stderr, model_file>>

\* Faulty variant: the model may be persisted right after fitting.
DumpEarly ==
    /\ tpc \in {"predict", "dump"}
    /\ ~model_file.fitted
    /\ model_file' = clf
    /\ tpc' = IF tpc = "dump" THEN "done" ELSE tpc
    /\ steps' = Append(steps, "persist")
    /\ UNCHANGED <<gvars, dummy_data, train_idx, test_idx, clf, y_pred,
                   accuracy, report, stdout, stderr>>
\* joblib.dump(clf, 'agricultural_product_recommendation_model.joblib')
Dump ==
    /\ tpc = "dump"
    /\ model_file' = clf
    /\ tpc' = "done"
    /\ steps' = Append(steps, "persist")
    /\ UNCHANGED <<gvars, dummy_data, train_idx, test_idx, clf, y_pred,
                   accuracy, report, stdout, stderr>>

\* ========================================================== specifications
GenNext ==
    \/ \E n \in SampleCounts : Call(n)
    \/ Seed
    \/ DrawTemperature
    \/ DrawPrecipitation
    \/ DrawSoilPh
    \/ DrawClimateZones
    \/ DrawInputExpenses
    \/ DrawOutputPrices
    \/ DrawProducts
    \/ Return
    \/ WriteCsv
    \/ RunAgain

TrainNext ==
    \/ Read
    \/ Encode
    \/ Split
    \/ Fit
    \/ Predict
    \/ Accuracy
    \/ Report
    \/ Dump

\* The generator script, run any number of times.
GenSpec == GenInit /\ [][GenNext]_vars

\* One run of the trainer on a file.
TrainSpec == TrainInit /\ [][TrainNext]_vars

\* ================================================================== claims
\* Every table the generator has produced: the one just returned and the
\* earlier ones.
Produced ==
    outputs \cup (IF gpc \in {"returned", "written"}
                  THEN {<<num_samples, dummy_frame>>} ELSE {})

RowInBounds(row) ==
    /\ TempLow <= row[ColTemperature] /\ row[ColTemperature] <= TempHigh
    /\ PrecipLow <= row[ColPrecipitation] /\ row[ColPrecipitation] <= PrecipHigh
    /\ PhLow <= row[ColSoilPh] /\ row[ColSoilPh] <= PhHigh
    /\ ExpenseLow <= row[ColInputExpenses] /\ row[ColInputExpenses] <= ExpenseHigh
    /\ PriceLow <= row[ColOutputPrices] /\ row[ColOutputPrices] <= PriceHigh
    /\ row[ColClimateZone] \in {"Tropical", "Temperate", "Arctic"}
    /\ row[ColProduct] \in {"Wheat", "Corn", "Rice", "Soybeans", "Potatoes"}

\* C1: for every sample count n >= 0, every row of the table returned by
\* generate_dummy_data(n) has each column inside its declared bounds:
\* temperature in [15,35], precipitation in [0,100], soil pH in [4,8.5],
\* input expense in [1000,5000], output price in [5000,10000], climate zone
\* and product among the listed names.
C1_ColumnsInBounds ==
    \A o \in Produced :
        \A i \in DOMAIN o[2].rows : RowInBounds(o[2].rows[i])

\* A call with the largest sample count has returned, with a temperature
\* in the upper half of its range.
C1_Witness ==
    /\ gpc = "returned"
    /\ num_samples = MaxSamples
    /\ Len(dummy_frame.rows) = MaxSamples
    /\ \E i \in DOMAIN dummy_frame.rows :
          2 * dummy_frame.rows[i][ColTemperature] > TempLow + TempHigh

\* C2: generate_dummy_data(n) returns a table of exactly n rows and the
\* seven declared columns, and the file written from it is the header line
\* followed by exactly one line per sample, holding that sample's cells.
C2_RowCount ==
    /\ \A o \in Produced :
          /\ Len(o[2].rows) = o[1]
          /\ o[2].columns = DataColumns
          /\ Len(o[2].columns) = 7
    /\ gpc = "written" =>
          /\ csv.exists
          /\ Len(csv.lines) = num_samples + 1
          /\ csv.lines[1] = DataColumns
          /\ \A i \in 1 .. num_samples :
                /\ Len(csv.lines[i + 1]) = 7
                /\ csv.lines[i + 1][1] = temperature[i]
                /\ csv.lines[i + 1][4] = climate_zones[i]
                /\ csv.lines[i + 1][7] = products[i]

\* The file of a table with the largest sample count has been written.
C2_Witness ==
    /\ gpc = "written"
    /\ num_samples = MaxSamples
    /\ Len(csv.lines) = MaxSamples + 1

\* C3: two runs of the generator with the same sample count return the same
\* table, whatever state the random generator was in before the call,
\* successive calls within one process included.
C3_Deterministic ==
    gpc = "returned" =>
        \A o \in outputs : o[1] = num_samples => o[2] = dummy_frame

\* A call has returned and an earlier call with the same, largest, sample
\* count had returned before it.
C3_Witness ==
    /\ gpc = "returned"
    /\ num_samples = MaxSamples
    /\ \E o \in outputs : o[1] = num_samples /\ Len(o[2].rows) = MaxSamples

\* The statements of a trainer run, in program order.
StepOrder ==
    <<"read", "encode", "split", "fit", "predict", "accuracy", "report",
      "persist">>

Did(step) == \E i \in DOMAIN steps : steps[i] = step

\* The columns get_dummies added.
IndicatorColumns == Range(dummy_data.columns) \ Range(DataColumns)

ZoneIndicators ==
    {"Climate Zone_Arctic", "Climate Zone_Temperate", "Climate Zone_Tropical"}

\* C4: for every dataset the trainer reads, one-hot expansion yields exactly
\* the three indicator columns Arctic, Temperate, Tropical, summing to 1 in
\* every row, also when the dataset has fewer than three distinct zones, so
\* the fixed feature selection finds its columns.
C4_ThreeIndicators ==
    Did("encode") =>
        /\ IndicatorColumns = ZoneIndicators
        /\ \A i \in DOMAIN dummy_data.rows :
              dummy_data.rows[i]["Climate Zone_Arctic"]
              + dummy_data.rows[i]["Climate Zone_Temperate"]
              + dummy_data.rows[i]["Climate Zone_Tropical"] = 1
        /\ stderr # "KeyError"

\* C5: for a dataset of N >= 2 rows, the test partition's size differs from
\* 0.2 * N by less than one row and the train partition has the other
\* N - test rows.
C5_SplitSizes ==
    LET n == Len(dummy_data.rows)
        nt == Cardinality(test_idx)
    IN (Did("split") /\ n >= 2) =>
          /\ TestSizeDen * nt - TestSizeNum * n < TestSizeDen
          /\ TestSizeNum * n - TestSizeDen * nt < TestSizeDen
          /\ Cardinality(train_idx) = n - nt

\* The largest dataset has been split, and its test side has two rows.
C5_Witness ==
    /\ Did("split")
    /\ Len(dummy_data.rows) = MaxRows
    /\ Cardinality(test_idx) >= 2

ReportedLabels == {report[k].label : k \in DOMAIN report}

InputMissingOrEmpty == ~csv.exists \/ Len(csv.lines) <= 1

\* C7: with the input file missing or without rows, the run ends in a
\* failure reported to the user before any classifier is fitted, and writes
\* no model file.
C7_BadInputFailsFast ==
    InputMissingOrEmpty =>
        /\ tpc \in {"read", "encode", "split", "failed"}
        /\ tpc # "failed" => ENABLED TrainNext
        /\ tpc = "failed" => stderr # ""
        /\ ~clf.fitted
        /\ ~model_file.fitted
        /\ ~Did("fit")

\* A run on a file holding the header line alone has failed.
C7_Witness ==
    /\ csv.exists
    /\ Len(csv.lines) = 1
    /\ tpc = "failed"
    /\ stderr = "KeyError"

\* The test partition lacks a class that the training partition has.
TestLacksTrainClass ==
    /\ Did("split")
    /\ Labels(y_train) \ Labels(y_test) # {}

\* C8: when the test partition lacks a class present in the training
\* partition, the run fails and reports it instead of completing the
\* evaluation and persisting the model.
C8_MissingClassFails ==
    TestLacksTrainClass =>
        /\ ~Did("report")
        /\ ~model_file.fitted
        /\ tpc # "done"

IsPrefix(a, b) ==
    /\ Len(a) <= Len(b)
    /\ \A i \in DOMAIN a : a[i] = b[i]

\* C9: the steps of a run occur in the order read, encode, split, fit,
\* predict, (accuracy,) report, persist; the model file is written only
\* after accuracy and report were computed on the test partition, and a
\* run that failed at an earlier step has written no model file.
C9_PersistLast ==
    /\ IsPrefix(steps, StepOrder)
    /\ model_file.fitted =>
          /\ Did("accuracy") /\ Did("report")
          /\ accuracy.total = Cardinality(test_idx)
          /\ Len(report) > 0
          /\ stderr = ""
    /\ tpc = "failed" => (~model_file.fitted /\ ~Did("persist"))

\* A run has completed all eight steps and written the model file.
C9_Witness ==
    /\ tpc = "done"
    /\ steps = StepOrder
    /\ model_file.fitted

\* C10: the train and test partitions are disjoint and together hold every
\* row exactly once; the classifier is fitted on train rows only, accuracy
\* and report are computed on test rows only.
C10_HeldOut ==
    LET all == DOMAIN dummy_data.rows IN
    /\ Did("split") =>
          /\ train_idx \cap test_idx = {}
          /\ train_idx \cup test_idx = all
          /\ Cardinality(train_idx) + Cardinality(test_idx) = Cardinality(all)
    /\ Did("fit") =>
          /\ clf.fitted_on = train_idx
          /\ clf.fitted_on \cap test_idx = {}
    /\ Did("predict") => DOMAIN y_pred = test_idx
    /\ Did("accuracy") => accuracy.total = Cardinality(test_idx)
    /\ Did("report") =>
          \A k \in DOMAIN report :
              report[k].support <= Cardinality(test_idx)

\* The largest dataset went through fitting and evaluation.
C10_Witness ==
    /\ tpc = "done"
    /\ Len(dummy_data.rows) = MaxRows
    /\ Cardinality(test_idx) >= 2
    /\ Cardinality(train_idx) >= 2

====
